---------------------------- MODULE Spec2Model ----------------------------
(***************************************************************************)
(* Command handlers of cogs/modmail.py (class Modmail).                    *)
(*                                                                         *)
(* State: the pieces of bot configuration the handlers read and write      *)
(* (snippets, aliases, blocked_users, blocked_whitelisted_users,           *)
(* dm_disabled, notification_squad, subscriptions), the two close timers   *)
(* of the thread the command runs in, the threads of bot.threads, the      *)
(* contact commands suspended at an await,                                 *)
(* last, the command that ran last, and out, the observable effects of     *)
(* that handler in the order it produced them (config.update(),            *)
(* ctx.send(), calls on the thread, an exception leaving the handler).     *)
(*                                                                         *)
(* Text is a tuple of one-character strings, so that str.lower, strip,     *)
(* startswith, len and str.format are computed and not assumed.  The       *)
(* translation function _() is installed outside this file; it is taken    *)
(* as returning its message id.                                            *)
(***************************************************************************)
EXTENDS Integers, Sequences, FiniteSets, TLC

VARIABLES
    snippets,                   \* bot.snippets: name -> value
    aliases,                    \* bot.aliases: the alias names (read only here)
    dm_disabled,                \* bot.config["dm_disabled"]
    blocked_users,              \* bot.blocked_users: str(user.id) -> reason
    blocked_whitelisted_users,  \* bot.blocked_whitelisted_users: list of str(user.id)
    close_task,                 \* ctx.thread.close_task is not None
    auto_close_task,            \* ctx.thread.auto_close_task is not None
    notification_squad,         \* bot.config["notification_squad"]: str(thread.id) -> mentions
    subscriptions,              \* bot.config["subscriptions"]: str(thread.id) -> mentions
    threads,                    \* bot.threads: recipient -> the threads made for them
    tasks,                      \* the contact commands in progress
    last,                       \* the command that ran last and what it was run on
    out                         \* effects of the last handler, in order

vars == <<snippets, aliases, dm_disabled, blocked_users,
          blocked_whitelisted_users, close_task, auto_close_task,
          notification_squad, subscriptions, threads, tasks, last, out>>

---------------------------------------------------------------------------
(* Bounds of the model.                                                    *)

MaxUser == 2        \* user ids are 1..MaxUser
MaxTime == 2        \* instants are 0..MaxTime
MaxTask == 2        \* contact commands that can be in progress together

---------------------------------------------------------------------------
(* Python values and string methods.                                       *)

\* None, kept apart from every text (no text has a character "<None>").
None == <<"<None>">>

\* bool(v) of a text or None.
Truthy(v) == v # None /\ v # <<>>

\* a or b
Or(a, b) == IF Truthy(a) THEN a ELSE b

UpperLetters == <<"A","B","C","D","E","F","G","H","I","J","K","L","M",
                  "N","O","P","Q","R","S","T","U","V","W","X","Y","Z">>
LowerLetters == <<"a","b","c","d","e","f","g","h","i","j","k","l","m",
                  "n","o","p","q","r","s","t","u","v","w","x","y","z">>

LowerChar(c) ==
    IF \E i \in 1..Len(UpperLetters) : UpperLetters[i] = c
    THEN LowerLetters[CHOOSE i \in 1..Len(UpperLetters) : UpperLetters[i] = c]
    ELSE c

\* str.lower
Lower(s) == [i \in 1..Len(s) |-> LowerChar(s[i])]

\* str(v): None prints as "None"
Str(v) == IF v = None THEN <<"N","o","n","e">> ELSE v

\* s.startswith(p)
StartsWith(s, p) == Len(s) >= Len(p) /\ SubSeq(s, 1, Len(p)) = p

\* c in s, for a character c
Contains(s, c) == \E i \in 1..Len(s) : s[i] = c

\* The first replacement field of a template that str.format does not find
\* among its keyword arguments (it raises KeyError for it), or None.
RECURSIVE FormatMissing(_, _)
FormatMissing(fields, kwargs) ==
    IF fields = <<>> THEN None
    ELSE IF Head(fields) \notin kwargs THEN <<Head(fields)>>
    ELSE FormatMissing(Tail(fields), kwargs)

\* dict and list operations
DictGet(d, k) == IF k \in DOMAIN d THEN d[k] ELSE None
DictSet(d, k, v) == [x \in DOMAIN d \cup {k} |-> IF x = k THEN v ELSE d[x]]
DictPop(d, k) == [x \in DOMAIN d \ {k} |-> d[x]]
EmptyDict == [x \in {} |-> None]

InList(l, x) == \E i \in 1..Len(l) : l[i] = x

\* list.remove(x): drops the first x
ListRemove(l, x) ==
    LET i == CHOOSE j \in 1..Len(l) : l[j] = x /\ \A k \in 1..(j - 1) : l[k] # x
    IN  SubSeq(l, 1, i - 1) \o SubSeq(l, i + 1, Len(l))

Count(l, x) == Cardinality({i \in 1..Len(l) : l[i] = x})

---------------------------------------------------------------------------
(* Effects a handler leaves in out.                                      *)

ConfigUpdate == <<"config.update">>
Send(title, text) == <<"ctx.send", title, text>>
Raise(exc) == <<"raise", exc>>
SendHelp == <<"ctx.send_help">>

IsSend(e) == e[1] = "ctx.send"
Ran(name, target) == [name |-> name, target |-> target]
NothingRan == Ran("", 0)
Updates(o) == Count(o, ConfigUpdate)

---------------------------------------------------------------------------
(* Inputs of the commands.                                                 *)

Users == 1..MaxUser
NoUser == 0                 \* the user argument left out (user is None)
NoThread == 0               \* the command is not run in a thread channel
Times == 0..MaxTime

\* The accounts a command can name: the users, and one bot account (user.bot)
BotUser == MaxUser + 1
Accounts == Users \cup {BotUser}
IsBot(user) == user = BotUser

\* bot.threads with no thread, and no contact command in progress
NoThreads == [u \in Accounts |-> <<>>]
Tasks == 1..MaxTask
NoCategory == 0             \* the category argument left out (category = None)
IdleTask == [pc |-> "idle", user |-> NoUser, category |-> NoCategory, exists |-> FALSE]
NoTasks == [t \in Tasks |-> IdleTask]

\* str(user.id)
Key(id) == ToString(id)
Keys == {Key(id) : id \in Users}

\* ctx.author: name and discriminator
Authors == { [name |-> <<"m","_">>, discriminator |-> <<"7">>],
             [name |-> <<"a","%">>, discriminator |-> <<"7">>] }

\* The after argument (UserFriendlyTime): left out, or a parsed instant dt,
\* the instant now the parser ran at, and the remaining text arg.
NoAfter == [given |-> FALSE, arg |-> None, dt |-> 0, now |-> 0]
After(arg, dt, now) == [given |-> TRUE, arg |-> arg, dt |-> dt, now |-> now]

\* For block the parser ran at the instant before the last one: dt is before,
\* at or after it.
BlockArgs == {<<>>, <<"x">>}
BlockAfters ==
    {NoAfter} \cup {After(a, d, MaxTime - 1) : a \in BlockArgs, d \in Times}

\* datetime.isoformat(): one token per instant
IsoFormat(t) == <<ToString(t)>>

\* The backquote character (a TLA+ string cannot hold one).
Backquote == "BACKQUOTE"

MarkdownChars == {"*", "_", Backquote, "~", "|", "\\"}

\* discord.utils.escape_markdown: a backslash before each markdown character
RECURSIVE escape_markdown(_)
escape_markdown(s) ==
    IF s = <<>> THEN <<>>
    ELSE (IF Head(s) \in MarkdownChars THEN <<"\\", Head(s)>> ELSE <<Head(s)>>)
         \o escape_markdown(Tail(s))

---------------------------------------------------------------------------
(* block, unblock, blocked whitelist                                       *)

SystemPrefix == <<"S","y","s","t","e","m"," ","M","e","s","s","a","g","e",":"," ">>

\* Reasons a block can hold before any command of this file runs: none, empty,
\* a moderator's, and one written by the bot itself.
InitReasons ==
    { None, <<>>, <<"b","y"," ","m",".">>, SystemPrefix \o <<"a","g","e",".">> }

\* user, or the thread's recipient when it is left out (NoUser when neither)
ResolveUser(user, recipient) == IF user # NoUser THEN user ELSE recipient

\* block: reason = f"by {escape_markdown(ctx.author.name)}#{ctx.author.discriminator}"
BlockBy(author) ==
    <<"b","y"," ">> \o escape_markdown(author.name) \o <<"#">> \o author.discriminator

\* block: the stored reason
BlockReason(author, after) ==
    LET by == BlockBy(author)
        for == IF after.given /\ Truthy(after.arg)
               THEN <<" ","f","o","r"," ",Backquote>> \o after.arg \o <<Backquote>>
               ELSE <<>>
        until == IF after.given /\ after.dt > after.now
                 THEN <<" ","u","n","t","i","l"," ">> \o IsoFormat(after.dt) ELSE <<>>
    IN  by \o for \o until \o <<".">>

\* block: "%" in reason, tested on the "by ..." part when after is given
BlockIllegal(author, after) == after.given /\ Contains(BlockBy(author), "%")

\* block refuses a whitelisted user
BlockRefused_never(key) == FALSE
BlockRefused(key) == InList(blocked_whitelisted_users, key)

block(user, recipient, author, after) ==
    LET u == ResolveUser(user, recipient)
        key == Key(u)
        msg == Or(DictGet(blocked_users, key), <<>>)
    IN
    /\ UNCHANGED <<snippets, aliases, dm_disabled, close_task, auto_close_task>>
    /\ last' = Ran("block", u)
    /\ UNCHANGED <<notification_squad, subscriptions, threads, tasks>>
    /\ IF u = NoUser
       THEN /\ out' = IF after.given THEN <<Raise("BadArgument")>>
                      ELSE <<Raise("MissingRequiredArgument")>>
            /\ UNCHANGED <<blocked_users, blocked_whitelisted_users>>
       ELSE IF BlockRefused(key)
       THEN /\ out' = <<Send("Error", "Cannot block {mention}, user is whitelisted.")>>
            /\ UNCHANGED <<blocked_users, blocked_whitelisted_users>>
       ELSE IF BlockIllegal(author, after)
       THEN /\ out' = <<Raise("BadArgument")>>
            /\ UNCHANGED <<blocked_users, blocked_whitelisted_users>>
       ELSE /\ blocked_users' = DictSet(blocked_users, key, BlockReason(author, after))
            /\ out' = << ConfigUpdate,
                         IF key \in DOMAIN blocked_users /\ Truthy(msg)
                         THEN Send("Success", "{mention} was previously blocked {old_reason}.\n{mention} is now blocked {reason}")
                         ELSE Send("Success", "{mention} is now blocked {reason}") >>
            /\ UNCHANGED blocked_whitelisted_users

\* unblock: the footer template of the "System Message" reply names the fields
\* {name}, {self.bot.prefix} and {user.id}; format() is given name, prefix, user_id.
FooterFields == <<"name", "self", "user">>
FooterKwargs == {"name", "prefix", "user_id"}

unblock(user, recipient) ==
    LET u == ResolveUser(user, recipient)
        key == Key(u)
        msg == Or(DictGet(blocked_users, key), <<>>)
        missing == FormatMissing(FooterFields, FooterKwargs)
    IN
    /\ UNCHANGED <<snippets, aliases, dm_disabled, close_task, auto_close_task,
                   blocked_whitelisted_users>>
    /\ last' = Ran("unblock", u)
    /\ UNCHANGED <<notification_squad, subscriptions, threads, tasks>>
    /\ IF u = NoUser
       THEN /\ out' = <<Raise("MissingRequiredArgument")>>
            /\ UNCHANGED blocked_users
       ELSE IF key \in DOMAIN blocked_users
       THEN /\ blocked_users' = DictPop(blocked_users, key)
            /\ out' = IF StartsWith(msg, SystemPrefix)
                      THEN IF missing # None
                           THEN <<ConfigUpdate, Raise("KeyError")>>
                           ELSE <<ConfigUpdate,
                                  Send("Success", "{mention} was previously blocked internally {reason}.\n{mention} is no longer blocked.")>>
                      ELSE <<ConfigUpdate, Send("Success", "{mention} is no longer blocked.")>>
       ELSE /\ out' = <<Send("Error", "{mention} is not blocked.")>>
            /\ UNCHANGED blocked_users

\* blocked whitelist: the un-whitelisting branch
Unwhitelist_keep(key) ==
    /\ UNCHANGED blocked_whitelisted_users
    /\ UNCHANGED blocked_users
    /\ out' = <<Send("Success", "{mention} is no longer whitelisted.")>>
Unwhitelist(key) ==
    /\ blocked_whitelisted_users' = ListRemove(blocked_whitelisted_users, key)
    /\ UNCHANGED blocked_users
    /\ out' = <<Send("Success", "{mention} is no longer whitelisted.")>>

\* blocked whitelist: the whitelisting branch
Whitelist(key) ==
    LET msg == IF key \in DOMAIN blocked_users
               THEN Or(DictGet(blocked_users, key), <<>>) ELSE <<>>
    IN
    /\ blocked_whitelisted_users' = Append(blocked_whitelisted_users, key)
    /\ blocked_users' = IF key \in DOMAIN blocked_users
                        THEN DictPop(blocked_users, key) ELSE blocked_users
    /\ out' = << ConfigUpdate,
                 IF StartsWith(msg, SystemPrefix)
                 THEN Send("Success", "{mention} was previously blocked internally for \"{reason}\". {mention} is now whitelisted.")
                 ELSE Send("Success", "{mention} is now whitelisted.") >>

blocked_whitelist(user, recipient) ==
    LET u == ResolveUser(user, recipient)
        key == Key(u)
    IN
    /\ UNCHANGED <<snippets, aliases, dm_disabled, close_task, auto_close_task>>
    /\ last' = Ran("blocked whitelist", u)
    /\ UNCHANGED <<notification_squad, subscriptions, threads, tasks>>
    /\ IF u = NoUser
       THEN /\ out' = <<SendHelp>>
            /\ UNCHANGED <<blocked_users, blocked_whitelisted_users>>
       ELSE IF InList(blocked_whitelisted_users, key)
       THEN Unwhitelist(key)
       ELSE Whitelist(key)

\* Lists of keys without a repeated entry
RECURSIVE NoDupLists(_)
NoDupLists(S) ==
    {<<>>} \cup UNION { { <<k>> \o l : l \in NoDupLists(S \ {k}) } : k \in S }

InitBlock ==
    /\ snippets = EmptyDict
    /\ aliases = {}
    /\ dm_disabled = 0
    /\ close_task = FALSE
    /\ auto_close_task = FALSE
    /\ notification_squad = EmptyDict
    /\ subscriptions = EmptyDict
    /\ threads = NoThreads
    /\ tasks = NoTasks
    /\ \E B \in SUBSET Keys :
          /\ blocked_users \in [B -> InitReasons]
          /\ blocked_whitelisted_users \in NoDupLists(Keys \ B)
    /\ last = NothingRan
    /\ out = <<>>

NextBlock ==
    \/ \E user \in Users \cup {NoUser}, recipient \in Users \cup {NoThread},
          author \in Authors, after \in BlockAfters :
          block(user, recipient, author, after)
    \/ \E user \in Users \cup {NoUser}, recipient \in Users \cup {NoThread} :
          unblock(user, recipient)
    \/ \E user \in Users \cup {NoUser}, recipient \in Users \cup {NoThread} :
          blocked_whitelist(user, recipient)

SpecBlock == InitBlock /\ [][NextBlock]_vars

---------------------------------------------------------------------------
(* snippet add / remove / edit                                             *)

SnippetNameMax == 120

Rep(c, n) == [i \in 1..n |-> c]

\* Names as typed: two spellings of one name, the name of an alias, a name of
\* exactly SnippetNameMax characters and one a character longer.
RawNames ==
    { <<"h","i">>, <<"H","i">>, <<"A","L">>,
      Rep("a", SnippetNameMax), Rep("a", SnippetNameMax + 1) }
AliasPool == { <<"a","l">> }
Values == { <<"v">>, <<"w">> }

\* core.utils.create_not_found_embed: an embed without a title
NotFound == Send("", "create_not_found_embed(name, snippets, Snippet)")

\* snippet add: the three refusals, in the order they are tested
SnippetExists(name) == name \in DOMAIN snippets
SnippetIsAlias(name) == name \in aliases
SnippetNameTooLong_offbyone(name) == Len(name) > SnippetNameMax + 1
SnippetNameTooLong(name) == Len(name) > SnippetNameMax

snippet_add(raw, value) ==
    LET name == Lower(raw) IN
    /\ UNCHANGED <<aliases, dm_disabled, blocked_users, blocked_whitelisted_users,
                   close_task, auto_close_task>>
    /\ last' = Ran("snippet add", name)
    /\ UNCHANGED <<notification_squad, subscriptions, threads, tasks>>
    /\ IF SnippetExists(name)
       THEN /\ out' = <<Send("Error", "Snippet {name} already exists.")>>
            /\ UNCHANGED snippets
       ELSE IF SnippetIsAlias(name)
       THEN /\ out' = <<Send("Error", "An alias with the same name already exists: {name}.")>>
            /\ UNCHANGED snippets
       ELSE IF SnippetNameTooLong(name)
       THEN /\ out' = <<Send("Error", "Snippet names cannot be longer than 120 characters.")>>
            /\ UNCHANGED snippets
       ELSE /\ snippets' = DictSet(snippets, name, value)
            /\ out' = <<ConfigUpdate, Send("Added snippet", "Successfully created snippet.")>>

snippet_remove(raw) ==
    LET name == Lower(raw) IN
    /\ UNCHANGED <<aliases, dm_disabled, blocked_users, blocked_whitelisted_users,
                   close_task, auto_close_task>>
    /\ last' = Ran("snippet remove", name)
    /\ UNCHANGED <<notification_squad, subscriptions, threads, tasks>>
    /\ IF name \in DOMAIN snippets
       THEN /\ snippets' = DictPop(snippets, name)
            /\ out' = <<ConfigUpdate, Send("Removed snippet", "Snippet {name} is now deleted.")>>
       ELSE /\ out' = <<NotFound>>
            /\ UNCHANGED snippets

\* snippet edit builds its reply with f_(...), a name this file neither defines
\* nor imports: with f_defined the call returns the text, without it the call
\* raises NameError, after the value is stored and persisted.
snippet_edit(raw, value, f_defined) ==
    LET name == Lower(raw) IN
    /\ UNCHANGED <<aliases, dm_disabled, blocked_users, blocked_whitelisted_users,
                   close_task, auto_close_task>>
    /\ last' = Ran("snippet edit", name)
    /\ UNCHANGED <<notification_squad, subscriptions, threads, tasks>>
    /\ IF name \in DOMAIN snippets
       THEN /\ snippets' = DictSet(snippets, name, value)
            /\ out' = IF f_defined
                      THEN <<ConfigUpdate, Send("Edited snippet", "{name} will now send \"{value}\".")>>
                      ELSE <<ConfigUpdate, Raise("NameError")>>
       ELSE /\ out' = <<NotFound>>
            /\ UNCHANGED snippets

---------------------------------------------------------------------------
(* enable, disable, disable all, isenable                                  *)

EnableNeeded_one == dm_disabled = 1
EnableNeeded == dm_disabled # 0

enable ==
    /\ UNCHANGED <<snippets, aliases, blocked_users, blocked_whitelisted_users,
                   close_task, auto_close_task>>
    /\ last' = Ran("enable", 0)
    /\ UNCHANGED <<notification_squad, subscriptions, threads, tasks>>
    /\ IF EnableNeeded
       THEN /\ dm_disabled' = 0
            /\ out' = <<ConfigUpdate, Send("Success", "Modmail will now accept all DM messages.")>>
       ELSE /\ UNCHANGED dm_disabled
            /\ out' = <<Send("Success", "Modmail will now accept all DM messages.")>>

DisableNeeded_always == TRUE
DisableNeeded == dm_disabled < 1

disable ==
    /\ UNCHANGED <<snippets, aliases, blocked_users, blocked_whitelisted_users,
                   close_task, auto_close_task>>
    /\ last' = Ran("disable", 0)
    /\ UNCHANGED <<notification_squad, subscriptions, threads, tasks>>
    /\ IF DisableNeeded
       THEN /\ dm_disabled' = 1
            /\ out' = <<ConfigUpdate, Send("Success", "Modmail will not create any new threads.")>>
       ELSE /\ UNCHANGED dm_disabled
            /\ out' = <<Send("Success", "Modmail will not create any new threads.")>>

disable_all ==
    /\ UNCHANGED <<snippets, aliases, blocked_users, blocked_whitelisted_users,
                   close_task, auto_close_task>>
    /\ last' = Ran("disable all", 0)
    /\ UNCHANGED <<notification_squad, subscriptions, threads, tasks>>
    /\ IF dm_disabled # 2
       THEN /\ dm_disabled' = 2
            /\ out' = <<ConfigUpdate, Send("Success", "Modmail will not accept any DM messages.")>>
       ELSE /\ UNCHANGED dm_disabled
            /\ out' = <<Send("Success", "Modmail will not accept any DM messages.")>>

isenable ==
    /\ UNCHANGED <<snippets, aliases, dm_disabled, blocked_users,
                   blocked_whitelisted_users, close_task, auto_close_task>>
    /\ last' = Ran("isenable", 0)
    /\ UNCHANGED <<notification_squad, subscriptions, threads, tasks>>
    /\ out' = IF dm_disabled = 1
              THEN <<Send("New Threads Disabled", "Modmail is not creating new threads.")>>
              ELSE IF dm_disabled = 2
              THEN <<Send("All DM Disabled", "Modmail is not accepting any DM messages for new and existing threads.")>>
              ELSE <<Send("Enabled", "Modmail is accepting all DM messages.")>>

InitConfig ==
    /\ snippets = EmptyDict
    /\ aliases \in SUBSET AliasPool
    /\ dm_disabled \in {0, 1, 2}
    /\ blocked_users = EmptyDict
    /\ blocked_whitelisted_users = <<>>
    /\ close_task = FALSE
    /\ auto_close_task = FALSE
    /\ notification_squad = EmptyDict
    /\ subscriptions = EmptyDict
    /\ threads = NoThreads
    /\ tasks = NoTasks
    /\ last = NothingRan
    /\ out = <<>>

NextConfig ==
    \/ \E raw \in RawNames, value \in Values : snippet_add(raw, value)
    \/ \E raw \in RawNames : snippet_remove(raw)
    \/ \E raw \in RawNames, value \in Values, f_defined \in BOOLEAN :
          snippet_edit(raw, value, f_defined)
    \/ enable
    \/ disable
    \/ disable_all
    \/ isenable

SpecConfig == InitConfig /\ [][NextConfig]_vars

---------------------------------------------------------------------------
(* close                                                                   *)

\* Close messages as typed (after.arg): none, empty, spellings of "cancel",
\* "silent" and "silently", texts that only contain those words, the text
\* "none", and an ordinary message.
CloseArgs ==
    { None, <<>>,
      <<"c","a","n","c","e","l">>, <<"C","a","n","C","E","L">>,
      <<"c","a","n","c","e","l"," ","i","t">>,
      <<"s","i","l","e","n","t">>, <<"S","i","l","e","n","t">>,
      <<"s","i","l","e","n","t","l","y">>, <<"S","I","L","E","N","T","L","Y">>,
      <<"g","o"," ","s","i","l","e","n","t">>,
      <<"n","o","n","e">>, <<"o","k">> }

CloseAfters == {NoAfter} \cup {After(a, d, 0) : a \in CloseArgs, d \in Times}

SilentWords == { <<"s","i","l","e","n","t">>, <<"s","i","l","e","n","t","l","y">> }
CancelWord == <<"c","a","n","c","e","l">>

\* close: message = after.arg if after else None
CloseMessage(after) == IF after.given THEN after.arg ELSE None

\* close: close_after = (after.dt - now).total_seconds() if after else 0
CloseAfter(after, now) == IF after.given THEN after.dt - now ELSE 0

\* close: silent = str(message).lower() in {"silent", "silently"}
RECURSIVE HasWord(_, _)
HasWord(s, ws) ==
    s # <<>> /\ ( (\E w \in ws : StartsWith(s, w)) \/ HasWord(Tail(s), ws) )
IsSilent_anyword(message) == HasWord(Lower(Str(message)), SilentWords)
IsSilent(message) == Lower(Str(message)) \in SilentWords

\* close: cancel = str(message).lower() == "cancel"
IsCancel_exact(message) == Str(message) = CancelWord
IsCancel(message) == Lower(Str(message)) = CancelWord

\* close: the announcement is sent when after and after.dt > now
CloseDelayed_orequal(after, now) == after.given /\ after.dt >= now
CloseDelayed(after, now) == after.given /\ after.dt > now

\* Calls on ctx.thread
CancelClosure == <<"thread.cancel_closure", "all=True">>
ThreadClose(after, message, silent) == <<"thread.close", after, message, silent>>
IsThreadClose(e) == e[1] = "thread.close"

\* send_scheduled_close_message: the embed sent, as title, description, the
\* text put for {silent}, the "Message" field (None when the embed has none)
\* and the timestamp
NoField == None
ScheduledCloseMessage(after, silent) ==
    LET silent_text == IF silent THEN <<"*","s","i","l","e","n","t","l","y","*"," ">>
                       ELSE <<>>
    IN  << "ctx.send", "Scheduled close", "This thread will close {silent}in {time}.",
           silent_text,
           IF Truthy(after.arg) /\ ~Truthy(silent_text) THEN after.arg ELSE NoField,
           after.dt >>
IsScheduledCloseMessage(e) == IsSend(e) /\ e[2] = "Scheduled close"

\* thread.cancel_closure and thread.close belong to the thread subsystem, and
\* the next command may run in another thread: the timers the next command
\* finds are not decided by this handler.
close(after, now) ==
    LET message == CloseMessage(after)
        silent == IsSilent(message)
    IN
    /\ UNCHANGED <<snippets, aliases, dm_disabled, blocked_users,
                   blocked_whitelisted_users>>
    /\ last' = Ran("close", after)
    /\ UNCHANGED <<notification_squad, subscriptions, threads, tasks>>
    /\ close_task' \in BOOLEAN
    /\ auto_close_task' \in BOOLEAN
    /\ IF IsCancel(message)
       THEN IF close_task \/ auto_close_task
            THEN out' = <<CancelClosure, Send("", "Scheduled close has been cancelled.")>>
            ELSE out' = <<Send("", "This thread has not already been scheduled to close.")>>
       ELSE out' = (IF CloseDelayed(after, now)
                    THEN <<ScheduledCloseMessage(after, silent)>> ELSE <<>>)
                   \o <<ThreadClose(CloseAfter(after, now), message, silent)>>

InitClose ==
    /\ snippets = EmptyDict
    /\ aliases = {}
    /\ dm_disabled = 0
    /\ blocked_users = EmptyDict
    /\ blocked_whitelisted_users = <<>>
    /\ close_task \in BOOLEAN
    /\ auto_close_task \in BOOLEAN
    /\ notification_squad = EmptyDict
    /\ subscriptions = EmptyDict
    /\ threads = NoThreads
    /\ tasks = NoTasks
    /\ last = NothingRan
    /\ out = <<>>

NextClose == \E after \in CloseAfters, now \in Times : close(after, now)

SpecClose == InitClose /\ [][NextClose]_vars

---------------------------------------------------------------------------
(* notify, unnotify, subscribe, unsubscribe                                *)

MaxThread == 1      \* the thread channels have ids 1..MaxThread
ThreadIds == 1..MaxThread

\* The author of these commands, with the mention of their account
Here == <<"@","h","e","r","e">>
Everyone == <<"@","e","v","e","r","y","o","n","e">>
AuthorMention == <<"<","@","1",">">>

\* The user_or_role argument as the handler receives it: left out, a Role or
\* User the converters found (it has a mention), or a text, lowercased by the
\* str.lower converter.
ArgNone == [kind |-> "none", value |-> None]
ArgObject(mention) == [kind |-> "object", value |-> mention]
ArgStr(typed) == [kind |-> "str", value |-> Lower(typed)]

TypedMentions ==
    { <<"h","e","r","e">>, Here, <<"@","H","e","r","e">>,
      <<"e","v","e","r","y","o","n","e">>, Everyone, <<"x">> }
MentionArgs ==
    {ArgNone, ArgObject(AuthorMention)} \cup {ArgStr(t) : t \in TypedMentions}

\* s.lstrip("@")
RECURSIVE LStripAt(_)
LStripAt(s) == IF s # <<>> /\ Head(s) = "@" THEN LStripAt(Tail(s)) ELSE s

SpecialMentions ==
    { <<"h","e","r","e">>, <<"e","v","e","r","y","o","n","e">>, Here, Everyone }

parse_user_or_role_keepat(author_mention, user_or_role) ==
    IF user_or_role.kind = "none" THEN author_mention
    ELSE IF user_or_role.kind = "object" THEN user_or_role.value
    ELSE IF user_or_role.value \in SpecialMentions
    THEN <<"@">> \o user_or_role.value
    ELSE None
parse_user_or_role(author_mention, user_or_role) ==
    IF user_or_role.kind = "none" THEN author_mention
    ELSE IF user_or_role.kind = "object" THEN user_or_role.value
    ELSE IF user_or_role.value \in SpecialMentions
    THEN <<"@">> \o LStripAt(user_or_role.value)
    ELSE None

\* unnotify, unsubscribe: the text used for an argument that is no mention
Quoted(user_or_role) == <<Backquote>> \o Str(user_or_role.value) \o <<Backquote>>

\* if str(thread.id) not in config[...]: config[...][str(thread.id)] = []
EnsureList(cfg, key) == IF key \in DOMAIN cfg THEN cfg ELSE DictSet(cfg, key, <<>>)

\* notify, subscribe: mention in mentions
AlreadyListed_never(mentions, mention) == FALSE
AlreadyListed(mentions, mention) == InList(mentions, mention)

MentionRan(name, thread, user_or_role) ==
    Ran(name, [thread |-> thread, arg |-> user_or_role])

notify(thread, user_or_role) ==
    LET mention == parse_user_or_role(AuthorMention, user_or_role)
        key == Key(thread)
        cfg == EnsureList(notification_squad, key)
    IN
    /\ UNCHANGED <<snippets, aliases, dm_disabled, blocked_users,
                   blocked_whitelisted_users, close_task, auto_close_task,
                   subscriptions, threads, tasks>>
    /\ last' = MentionRan("notify", thread, user_or_role)
    /\ IF mention = None
       THEN /\ out' = <<Raise("BadArgument")>>
            /\ UNCHANGED notification_squad
       ELSE IF AlreadyListed(cfg[key], mention)
       THEN /\ notification_squad' = cfg
            /\ out' = <<Send("", "{mention} is already going to be mentioned.")>>
       ELSE /\ notification_squad' = DictSet(cfg, key, Append(cfg[key], mention))
            /\ out' = <<ConfigUpdate,
                        Send("", "{mention} will be mentioned on the next message received.")>>

unnotify(thread, user_or_role) ==
    LET parsed == parse_user_or_role(AuthorMention, user_or_role)
        mention == IF parsed = None THEN Quoted(user_or_role) ELSE parsed
        key == Key(thread)
        cfg == EnsureList(notification_squad, key)
    IN
    /\ UNCHANGED <<snippets, aliases, dm_disabled, blocked_users,
                   blocked_whitelisted_users, close_task, auto_close_task,
                   subscriptions, threads, tasks>>
    /\ last' = MentionRan("unnotify", thread, user_or_role)
    /\ IF ~InList(cfg[key], mention)
       THEN /\ notification_squad' = cfg
            /\ out' = <<Send("", "{mention} does not have a pending notification.")>>
       ELSE /\ notification_squad' = DictSet(cfg, key, ListRemove(cfg[key], mention))
            /\ out' = <<ConfigUpdate, Send("", "{mention} will no longer be notified.")>>

subscribe(thread, user_or_role) ==
    LET mention == parse_user_or_role(AuthorMention, user_or_role)
        key == Key(thread)
        cfg == EnsureList(subscriptions, key)
    IN
    /\ UNCHANGED <<snippets, aliases, dm_disabled, blocked_users,
                   blocked_whitelisted_users, close_task, auto_close_task,
                   notification_squad, threads, tasks>>
    /\ last' = MentionRan("subscribe", thread, user_or_role)
    /\ IF mention = None
       THEN /\ out' = <<Raise("BadArgument")>>
            /\ UNCHANGED subscriptions
       ELSE IF AlreadyListed(cfg[key], mention)
       THEN /\ subscriptions' = cfg
            /\ out' = <<Send("", "{mention} is already subscribed to this thread.")>>
       ELSE /\ subscriptions' = DictSet(cfg, key, Append(cfg[key], mention))
            /\ out' = <<ConfigUpdate,
                        Send("", "{mention} will now be notified of all messages received.")>>

unsubscribe(thread, user_or_role) ==
    LET parsed == parse_user_or_role(AuthorMention, user_or_role)
        mention == IF parsed = None THEN Quoted(user_or_role) ELSE parsed
        key == Key(thread)
        cfg == EnsureList(subscriptions, key)
    IN
    /\ UNCHANGED <<snippets, aliases, dm_disabled, blocked_users,
                   blocked_whitelisted_users, close_task, auto_close_task,
                   notification_squad, threads, tasks>>
    /\ last' = MentionRan("unsubscribe", thread, user_or_role)
    /\ IF ~InList(cfg[key], mention)
       THEN /\ subscriptions' = cfg
            /\ out' = <<Send("", "{mention} is not already subscribed to this thread.")>>
       ELSE /\ subscriptions' = DictSet(cfg, key, ListRemove(cfg[key], mention))
            /\ out' = <<ConfigUpdate, Send("", "{mention} is now unsubscribed to this thread.")>>

InitNotify ==
    /\ snippets = EmptyDict
    /\ aliases = {}
    /\ dm_disabled = 0
    /\ blocked_users = EmptyDict
    /\ blocked_whitelisted_users = <<>>
    /\ close_task = FALSE
    /\ auto_close_task = FALSE
    /\ notification_squad = EmptyDict
    /\ subscriptions = EmptyDict
    /\ threads = NoThreads
    /\ tasks = NoTasks
    /\ last = NothingRan
    /\ out = <<>>

NextNotify ==
    \/ \E thread \in ThreadIds, arg \in MentionArgs : notify(thread, arg)
    \/ \E thread \in ThreadIds, arg \in MentionArgs : unnotify(thread, arg)
    \/ \E thread \in ThreadIds, arg \in MentionArgs : subscribe(thread, arg)
    \/ \E thread \in ThreadIds, arg \in MentionArgs : unsubscribe(thread, arg)

SpecNotify == InitNotify /\ [][NextNotify]_vars

\* notify and unnotify alone: the notification squad of the threads
NextSquad ==
    \/ \E thread \in ThreadIds, arg \in MentionArgs : notify(thread, arg)
    \/ \E thread \in ThreadIds, arg \in MentionArgs : unnotify(thread, arg)

SpecSquad == InitNotify /\ [][NextSquad]_vars

---------------------------------------------------------------------------
(* contact                                                                 *)

Categories == {NoCategory, 1}

\* bot.threads: find(recipient=user) gives a thread of the user or None;
\* create(user, creator=, category=) opens one more thread for the user.
NewThread(user, category) ==
    [recipient |-> user, creator |-> AuthorMention, category |-> category]
OwnThread(user) ==
    [recipient |-> user, creator |-> None, category |-> NoCategory]
ThreadsFind(ths, user) == ths[user] # <<>>
ThreadsCreate(ths, user, category) ==
    [ths EXCEPT ![user] = Append(@, NewThread(user, category))]

\* What contact does besides: the call of threads.create, the log line
CreateCalled(user) == <<"threads.create", user>>
LoggerInfo == <<"logger.info", "Contacting user %s when Modmail DM is disabled.">>
Created(e) == {i \in 1..Len(e) : e[i][1] = "threads.create"}

\* if user.bot:
ContactRefused(user) == IsBot(user)

\* if exists: ... else: thread = self.bot.threads.create(...)
ContactCreates_always(exists) == TRUE
ContactCreates(exists) == ~exists

\* _ is assigned in the handler (sent_emoji, _ = ...), so it is a local name
\* of contact and every _("...") before that line raises UnboundLocalError.
Untranslated == Raise("UnboundLocalError")

\* contact from the value of threads.find on
ContactRest(category, user, exists) ==
    IF ~ContactCreates(exists)
    THEN /\ out' = <<Untranslated>>
         /\ UNCHANGED threads
    ELSE /\ threads' = ThreadsCreate(threads, user, category)
         /\ out' = <<CreateCalled(user)>>
                   \o (IF dm_disabled >= 1 THEN <<LoggerInfo>> ELSE <<>>)
                   \o <<Untranslated>>

ContactRan(category, user) == Ran("contact", [user |-> user, category |-> category])

\* A contact command that runs with no other command in between
contact(category, user) ==
    /\ UNCHANGED <<snippets, aliases, dm_disabled, blocked_users,
                   blocked_whitelisted_users, close_task, auto_close_task,
                   notification_squad, subscriptions, tasks>>
    /\ last' = ContactRan(category, user)
    /\ IF ContactRefused(user)
       THEN /\ out' = <<Untranslated>>
            /\ UNCHANGED threads
       ELSE ContactRest(category, user, ThreadsFind(threads, user))

\* A contact command among others: it runs to the await of threads.find,
\* where other commands can run; threads.find has looked for the thread
\* either before it gave way (found) or does so when it goes on (find).
contact_begin(t, category, user) ==
    /\ tasks[t].pc = "idle"
    /\ UNCHANGED <<snippets, aliases, dm_disabled, blocked_users,
                   blocked_whitelisted_users, close_task, auto_close_task,
                   notification_squad, subscriptions, threads>>
    /\ last' = ContactRan(category, user)
    /\ IF ContactRefused(user)
       THEN /\ out' = <<Untranslated>>
            /\ UNCHANGED tasks
       ELSE /\ out' = <<>>
            /\ \E pc \in {"find", "found"} :
                 tasks' = [tasks EXCEPT ![t] =
                    [pc |-> pc, user |-> user, category |-> category,
                     exists |-> pc = "found" /\ ThreadsFind(threads, user)]]

contact_resume(t) ==
    LET task == tasks[t]
        exists == IF task.pc = "found" THEN task.exists
                  ELSE ThreadsFind(threads, task.user)
    IN
    /\ task.pc \in {"find", "found"}
    /\ UNCHANGED <<snippets, aliases, dm_disabled, blocked_users,
                   blocked_whitelisted_users, close_task, auto_close_task,
                   notification_squad, subscriptions>>
    /\ last' = ContactRan(task.category, task.user)
    /\ tasks' = [tasks EXCEPT ![t] = IdleTask]
    /\ ContactRest(task.category, task.user, exists)

InitContact ==
    /\ snippets = EmptyDict
    /\ aliases = {}
    /\ dm_disabled \in {0, 1, 2}
    /\ blocked_users = EmptyDict
    /\ blocked_whitelisted_users = <<>>
    /\ close_task = FALSE
    /\ auto_close_task = FALSE
    /\ notification_squad = EmptyDict
    /\ subscriptions = EmptyDict
    /\ \E open \in SUBSET Users :
          threads = [u \in Accounts |-> IF u \in open THEN <<OwnThread(u)>> ELSE <<>>]
    /\ tasks = NoTasks
    /\ last = NothingRan
    /\ out = <<>>

NextContact ==
    \E category \in Categories, user \in Accounts : contact(category, user)

SpecContact == InitContact /\ [][NextContact]_vars

NextContactAsync ==
    \/ \E t \in Tasks, user \in Accounts : contact_begin(t, NoCategory, user)
    \/ \E t \in Tasks : contact_resume(t)

SpecContactAsync == InitContact /\ [][NextContactAsync]_vars

---------------------------------------------------------------------------
(* All the handlers together.  SpecBlock, SpecConfig, SpecClose,           *)
(* SpecNotify, SpecContact and SpecContactAsync are its restrictions to    *)
(* the handlers that share state, each started with the state of the       *)
(* others empty.                                                           *)

Init ==
    /\ snippets = EmptyDict
    /\ aliases \in SUBSET AliasPool
    /\ dm_disabled \in {0, 1, 2}
    /\ \E B \in SUBSET Keys :
          /\ blocked_users \in [B -> InitReasons]
          /\ blocked_whitelisted_users \in NoDupLists(Keys \ B)
    /\ close_task \in BOOLEAN
    /\ auto_close_task \in BOOLEAN
    /\ notification_squad = EmptyDict
    /\ subscriptions = EmptyDict
    /\ threads = NoThreads
    /\ tasks = NoTasks
    /\ last = NothingRan
    /\ out = <<>>

Next ==
    \/ NextBlock
    \/ NextConfig
    \/ NextClose
    \/ NextNotify
    \/ NextContact
    \/ NextContactAsync

Spec == Init /\ [][Next]_vars

---------------------------------------------------------------------------
(* Claims about block, unblock and blocked whitelist (SpecBlock).          *)

\* C1: block of a user whose id is in blocked_whitelisted_users replies with
\* the "Cannot block ..., user is whitelisted" error, leaves blocked_users and
\* blocked_whitelisted_users as they were and does not call config.update().
C1_BlockWhitelistedRefused ==
    [][ ( /\ last'.name = "block"
          /\ last'.target # NoUser
          /\ InList(blocked_whitelisted_users, Key(last'.target)) )
        => /\ out' = <<Send("Error", "Cannot block {mention}, user is whitelisted.")>>
           /\ blocked_users' = blocked_users
           /\ blocked_whitelisted_users' = blocked_whitelisted_users
           /\ Updates(out') = 0 ]_vars

\* C1 witness: block has run on a whitelisted user.
C1_Witness ==
    /\ last.name = "block"
    /\ last.target # NoUser
    /\ InList(blocked_whitelisted_users, Key(last.target))

\* C2: unblock of a user id present in blocked_users, whatever the stored
\* reason, removes the id, calls config.update() and then sends a reply titled
\* "Success"; unblock of a user id not in blocked_users leaves blocked_users
\* as it was and sends the "... is not blocked." error reply.
C2_UnblockAlwaysReplies ==
    [][ ( last'.name = "unblock" /\ last'.target # NoUser )
        => IF Key(last'.target) \in DOMAIN blocked_users
           THEN /\ Key(last'.target) \notin DOMAIN blocked_users'
                /\ Len(out') = 2
                /\ out'[1] = ConfigUpdate
                /\ IsSend(out'[2])
                /\ out'[2][2] = "Success"
           ELSE /\ blocked_users' = blocked_users
                /\ out' = <<Send("Error", "{mention} is not blocked.")>> ]_vars

\* C3: blocked whitelist toggles the membership of the user in
\* blocked_whitelisted_users: a user not in the list is added exactly once and
\* loses any entry in blocked_users; a user in the list is removed from it and
\* blocked_users stays as it was.
C3_WhitelistToggles ==
    [][ ( last'.name = "blocked whitelist" /\ last'.target # NoUser )
        => LET key == Key(last'.target) IN
           /\ InList(blocked_whitelisted_users', key)
                 <=> ~InList(blocked_whitelisted_users, key)
           /\ IF InList(blocked_whitelisted_users, key)
              THEN blocked_users' = blocked_users
              ELSE /\ Count(blocked_whitelisted_users', key) = 1
                   /\ key \notin DOMAIN blocked_users'
                   /\ \A k \in DOMAIN blocked_users \ {key} :
                         k \in DOMAIN blocked_users'
                         /\ blocked_users'[k] = blocked_users[k] ]_vars

\* C3 witness: a user blocked by the bot itself has just been whitelisted.
C3_Witness ==
    /\ last.name = "blocked whitelist"
    /\ last.target # NoUser
    /\ InList(blocked_whitelisted_users, Key(last.target))
    /\ Len(out) = 2
    /\ out[2] = Send("Success", "{mention} was previously blocked internally for \"{reason}\". {mention} is now whitelisted.")

---------------------------------------------------------------------------
(* Claims about enable / disable / isenable and the snippet commands       *)
(* (SpecConfig).                                                           *)

\* C4: from any value of dm_disabled, enable leaves dm_disabled = 0, and an
\* isenable issued right after enable replies "Enabled" (Modmail is accepting
\* all DM messages); enable calls config.update() only when the value changed.
C4_EnableResets ==
    [][ /\ last'.name = "enable"
           => /\ dm_disabled' = 0
              /\ Updates(out') > 0 => dm_disabled # dm_disabled'
        /\ (last.name = "enable" /\ last'.name = "isenable")
           => out' = <<Send("Enabled", "Modmail is accepting all DM messages.")>> ]_vars

\* C4 witness: enable has just reset a non-zero dm_disabled (it persisted).
C4_Witness ==
    /\ last.name = "enable"
    /\ dm_disabled = 0
    /\ Updates(out) = 1

Max(a, b) == IF a >= b THEN a ELSE b

\* C5: disable leaves dm_disabled = max(previous value, 1) and disable all
\* leaves it 2; once it is 2 it stays 2 until enable runs, whatever else runs,
\* and isenable then replies "All DM Disabled"; dm_disabled is always 0, 1 or 2.
C5_DisableNeverWeakens ==
    /\ [](dm_disabled \in {0, 1, 2})
    /\ [][ /\ last'.name = "disable" => dm_disabled' = Max(dm_disabled, 1)
           /\ last'.name = "disable all" => dm_disabled' = 2
           /\ (dm_disabled = 2 /\ last'.name # "enable") => dm_disabled' = 2
           /\ (dm_disabled = 2 /\ last'.name = "isenable")
              => out' = <<Send("All DM Disabled", "Modmail is not accepting any DM messages for new and existing threads.")>>
         ]_vars

\* C5 witness: plain disable has run while all DM were disabled.
C5_Witness ==
    /\ last.name = "disable"
    /\ dm_disabled = 2

\* C6: snippet add stores the value under the name only when the name is not
\* a snippet, not the name of an alias and at most 120 characters long; in each
\* of the three other cases it sends one "Error" reply, leaves the snippets as
\* they were and does not call config.update().
C6_SnippetAddRefusals ==
    [][ last'.name = "snippet add"
        => LET name == last'.target IN
           IF name \in DOMAIN snippets \/ name \in aliases \/ Len(name) > 120
           THEN /\ Len(out') = 1
                /\ IsSend(out'[1])
                /\ out'[1][2] = "Error"
                /\ snippets' = snippets
           ELSE /\ DOMAIN snippets' = DOMAIN snippets \cup {name}
                /\ snippets'[name] \in Values
                /\ \A n \in DOMAIN snippets : snippets'[n] = snippets[n]
                /\ Updates(out') = 1 ]_vars

\* C6 witness: a name of more than 120 characters has just been refused.
C6_Witness ==
    /\ last.name = "snippet add"
    /\ Len(last.target) > 120
    /\ out = <<Send("Error", "Snippet names cannot be longer than 120 characters.")>>

\* C7: snippet edit never changes the set of snippet names: for an existing
\* name it replaces the value, persists and replies "Edited snippet", for a
\* missing name it changes nothing; snippet remove of a missing name leaves the
\* snippets as they were, does not persist and replies with the not-found embed.
C7_EditAndRemoveOnlyExisting ==
    [][ /\ last'.name = "snippet edit"
           => /\ DOMAIN snippets' = DOMAIN snippets
              /\ IF last'.target \in DOMAIN snippets
                 THEN /\ Len(out') = 2
                      /\ out'[1] = ConfigUpdate
                      /\ IsSend(out'[2])
                      /\ out'[2][2] = "Edited snippet"
                 ELSE /\ snippets' = snippets
                      /\ out' = <<NotFound>>
        /\ (last'.name = "snippet remove" /\ last'.target \notin DOMAIN snippets)
           => /\ snippets' = snippets
              /\ out' = <<NotFound>> ]_vars

---------------------------------------------------------------------------
(* Claims about close (SpecClose).                                         *)

\* The close message of the command that ran last, lowercased
LastCloseWord(l) == Lower(Str(IF l.target.given THEN l.target.arg ELSE None))

\* C8: a close whose message is "cancel" in any letter case never calls
\* thread.close: with a close_task or an auto_close_task it calls
\* thread.cancel_closure(all=True) and replies "Scheduled close has been
\* cancelled.", otherwise it calls neither and replies that the thread has not
\* been scheduled to close.
C8_CancelNeverCloses ==
    [][ ( last'.name = "close" /\ LastCloseWord(last') = <<"c","a","n","c","e","l">> )
        => /\ \A i \in 1..Len(out') : ~IsThreadClose(out'[i])
           /\ IF close_task \/ auto_close_task
              THEN out' = <<CancelClosure, Send("", "Scheduled close has been cancelled.")>>
              ELSE out' = <<Send("", "This thread has not already been scheduled to close.")>> ]_vars

\* C8 witness: "CanCEL" has just cancelled a scheduled close.
C8_Witness ==
    /\ last.name = "close"
    /\ last.target.given
    /\ last.target.arg = <<"C","a","n","C","E","L">>
    /\ out = <<CancelClosure, Send("", "Scheduled close has been cancelled.")>>

\* C9: a close that is not a cancel calls thread.close last, and sends the
\* "Scheduled close" announcement exactly when thread.close gets after > 0,
\* and then before that call; a close without the after argument calls
\* thread.close(after = 0, message = None, silent = False) and announces nothing.
C9_AnnouncedIffDelayed ==
    [][ ( last'.name = "close" /\ LastCloseWord(last') # <<"c","a","n","c","e","l">> )
        => /\ Len(out') \in {1, 2}
           /\ IsThreadClose(out'[Len(out')])
           /\ Len(out') = 2 <=> out'[Len(out')][2] > 0
           /\ Len(out') = 2 => IsScheduledCloseMessage(out'[1])
           /\ ~last'.target.given => out' = <<ThreadClose(0, None, FALSE)>> ]_vars

\* C9 witness: an announcement was sent and thread.close called with after > 0.
C9_Witness ==
    /\ last.name = "close"
    /\ Len(out) = 2
    /\ IsScheduledCloseMessage(out[1])
    /\ IsThreadClose(out[2])
    /\ out[2][2] > 0

\* C10: thread.close is called with silent = True exactly when the whole close
\* message, lowercased, is "silent" or "silently", and then a scheduled-close
\* announcement has no "Message" field; for every other message that is not a
\* cancel (none, or a longer text containing the word) it is called with
\* silent = False.
C10_SilentIffWholeWord ==
    [][ last'.name = "close"
        => /\ LastCloseWord(last') # <<"c","a","n","c","e","l">>
              => \E i \in 1..Len(out') : IsThreadClose(out'[i])
           /\ \A i \in 1..Len(out') :
                 IsThreadClose(out'[i])
                 => /\ out'[i][4] <=>
                          LastCloseWord(last') \in
                             { <<"s","i","l","e","n","t">>,
                               <<"s","i","l","e","n","t","l","y">> }
                    /\ out'[i][4]
                       => \A j \in 1..Len(out') :
                             IsScheduledCloseMessage(out'[j]) => out'[j][5] = NoField ]_vars

\* C10 witness: "SILENTLY" with a later instant: announced without a Message
\* field, then closed silently.
C10_Witness ==
    /\ last.name = "close"
    /\ last.target.given
    /\ last.target.arg = <<"S","I","L","E","N","T","L","Y">>
    /\ Len(out) = 2
    /\ IsScheduledCloseMessage(out[1])
    /\ out[1][5] = NoField
    /\ IsThreadClose(out[2])
    /\ out[2][4]

---------------------------------------------------------------------------
(* Further claims about block, unblock and blocked whitelist (SpecBlock).  *)

\* C14: started with no user id in both, blocked_users and
\* blocked_whitelisted_users never share a user id, whatever block, unblock
\* and blocked whitelist commands run.
C14_BlockedAndWhitelistedDisjoint ==
    \A k \in DOMAIN blocked_users : ~InList(blocked_whitelisted_users, k)

\* C14 witness: a block has just been stored while another user is whitelisted.
C14_Witness ==
    /\ last.name = "block"
    /\ Len(out) = 2
    /\ out[1] = ConfigUpdate
    /\ blocked_whitelisted_users # <<>>
    /\ DOMAIN blocked_users # {}

---------------------------------------------------------------------------
(* C11, C12: the mentions of a thread                                      *)

\* The mention an argument stands for: the author when left out, @here for
\* here and @here, @everyone for everyone and @everyone.
SameMentionArgs ==
    { ArgNone,
      ArgStr(<<"h","e","r","e">>), ArgStr(Here),
      ArgStr(<<"e","v","e","r","y","o","n","e">>), ArgStr(Everyone) }

MentionOf(arg) ==
    IF arg.kind = "none" THEN AuthorMention
    ELSE IF arg.value \in { <<"h","e","r","e">>, Here } THEN Here
    ELSE Everyone

SquadOf(cfg, thread) ==
    IF Key(thread) \in DOMAIN cfg THEN cfg[Key(thread)] ELSE <<>>

NoDupMentions(cfg) ==
    \A k \in DOMAIN cfg : \A i, j \in 1..Len(cfg[k]) : cfg[k][i] = cfg[k][j] => i = j

\* C12: after every notify, unnotify, subscribe or unsubscribe each thread's
\* notification_squad list and subscriptions list holds each mention at most
\* once; a notify (subscribe) of a mention already in the list is answered
\* "already", leaves the list as it was and does not call config.update().
C12_MentionsAtMostOnce ==
    [][ /\ NoDupMentions(notification_squad')
        /\ NoDupMentions(subscriptions')
        /\ \A name \in {"notify", "subscribe"} :
             LET cfg == IF name = "notify" THEN notification_squad ELSE subscriptions
                 cfg2 == IF name = "notify" THEN notification_squad' ELSE subscriptions'
                 mention == parse_user_or_role(AuthorMention, last'.target.arg)
                 before == SquadOf(cfg, last'.target.thread)
             IN
             (last'.name = name /\ InList(before, mention)) =>
                 /\ cfg2 = cfg
                 /\ out' = IF name = "notify"
                           THEN <<Send("", "{mention} is already going to be mentioned.")>>
                           ELSE <<Send("", "{mention} is already subscribed to this thread.")>>
      ]_vars

\* C12 witness: subscribe has just been answered "already" for a thread with
\* two subscribed mentions.
C12_Witness ==
    /\ last.name = "subscribe"
    /\ out = <<Send("", "{mention} is already subscribed to this thread.")>>
    /\ \E thread \in ThreadIds : Len(SquadOf(subscriptions, thread)) >= 2
    /\ notification_squad # EmptyDict

---------------------------------------------------------------------------
(* C13, C16: contact                                                       *)

\* C13: a contact command calls threads.create only for a user that is no
\* bot and has no thread (threads.find gave None), and at most once; so with
\* the commands run one after another no bot has a thread and no recipient
\* has more than one.
C13_CreateOnlyWithoutThread ==
    [][ last'.name = "contact" =>
          LET user == last'.target.user IN
          /\ Cardinality(Created(out')) <= 1
          /\ Created(out') # {} =>
                /\ ~IsBot(user)
                /\ threads[user] = <<>>
                /\ Len(threads'[user]) = 1
          /\ Created(out') = {} => threads' = threads
          /\ threads'[BotUser] = <<>>
          /\ \A u \in Users : Len(threads'[u]) <= 1
      ]_vars

\* C13 witness: contact has just created the thread of a user while another
\* user had a thread already.
C13_Witness ==
    /\ last.name = "contact"
    /\ Created(out) # {}
    /\ Len(threads[last.target.user]) = 1
    /\ \E u \in Users : u # last.target.user /\ threads[u] = <<OwnThread(u)>>

\* C16: with contact commands for a user running together, each able to give
\* way at its await of threads.find, the user never has two threads
\* (threads.create is called at most once for the user).
C16_NeverTwoThreads ==
    \A u \in Accounts : Len(threads[u]) <= 1

---------------------------------------------------------------------------
(* C15: changes of the configuration are saved                             *)

ConfigChanged ==
    \/ snippets' # snippets
    \/ notification_squad' # notification_squad
    \/ subscriptions' # subscriptions
    \/ blocked_users' # blocked_users
    \/ blocked_whitelisted_users' # blocked_whitelisted_users
    \/ dm_disabled' # dm_disabled

\* C15: a handler that changes the persisted configuration calls
\* config.update() after the change and before it sends its reply, in both
\* branches of blocked whitelist too.
C15_UpdateBeforeReply ==
    [][ ConfigChanged =>
          \E i \in 1..Len(out') :
              /\ out'[i] = ConfigUpdate
              /\ \A j \in 1..Len(out') : IsSend(out'[j]) => i < j
      ]_vars

====
